---- MODULE Spec2Model ----
(***************************************************************************)
(* Aurora (src/src/Aurora.ts): an HTTP request orchestrator over an axios  *)
(* instance.  The model follows the class member by member: the gate       *)
(* counter `requests`, the default AbortController, the axios instance's   *)
(* defaults, and the calls suspended at `await this.axiosInstance(...)`.   *)
(*                                                                         *)
(* JavaScript objects are TLA+ functions from keys to values: a key that   *)
(* is not in the DOMAIN is `undefined`.  Strings that the code inspects    *)
(* character by character (URLs) are sequences of one-character strings.   *)
(***************************************************************************)
EXTENDS Bags, FiniteSets, Integers, Sequences, TLC

VARIABLES
    requests,                 \* this.requests = { max, current }
    defaultAbortController,   \* this.defaultAbortController: [aborted |-> BOOLEAN]
    axiosDefaults,            \* this.axiosInstance.defaults
    inflight,                 \* bag of the calls suspended at the await (line 79)
    handles,                  \* the result handle (its recall closure) the caller holds: at most one
    last                      \* what the latest operation returned / threw / called back

vars == <<requests, defaultAbortController, axiosDefaults, inflight, handles, last>>

(***************************************************************************)
(* Bounds of the model.                                                    *)
(***************************************************************************)
MaxInFlight == 2      \* calls the caller keeps suspended at once
MaxLimit == 2         \* largest limit handed to setMaxConcurrentRequestsLimit

(***************************************************************************)
(* Values.                                                                 *)
(***************************************************************************)
EmptyObject == <<>>                       \* {}
Null == [kind |-> "null"]                 \* null

\* Number.POSITIVE_INFINITY, and a finite positive limit
POSITIVE_INFINITY == [finite |-> FALSE, value |-> 0]
Finite(n) == [finite |-> TRUE, value |-> n]

\* (faulty variant: the admission test off by one, current > max)
GreaterOrEqual_OffByOne(current, max) == max.finite /\ current > max.value

\* current >= max   (line 63)
GreaterOrEqual(current, max) == max.finite /\ current >= max.value

\* { ...a, ...b }: the keys of b override those of a
Spread(a, b) == [k \in (DOMAIN a) \cup (DOMAIN b) |-> IF k \in DOMAIN b THEN b[k] ELSE a[k]]

\* the object without the named keys (rest destructuring, delete)
Omit(obj, keys) == [k \in (DOMAIN obj) \ keys |-> obj[k]]

(***************************************************************************)
(* Strings inspected character by character.                               *)
(***************************************************************************)
IsWhitespace(c) == c = " "

RECURSIVE TrimStart(_)
TrimStart(s) == IF s # <<>> /\ IsWhitespace(Head(s)) THEN TrimStart(Tail(s)) ELSE s

RECURSIVE TrimEnd(_)
TrimEnd(s) ==
    IF s # <<>> /\ IsWhitespace(s[Len(s)]) THEN TrimEnd(SubSeq(s, 1, Len(s) - 1)) ELSE s

\* String.prototype.trim
Trim(s) == TrimEnd(TrimStart(s))

\* baseURL.replace(/\/+$/, '')   (line 43)
RECURSIVE StripTrailingSlashes(_)
StripTrailingSlashes(s) ==
    IF s # <<>> /\ s[Len(s)] = "/" THEN StripTrailingSlashes(SubSeq(s, 1, Len(s) - 1)) ELSE s

\* endpoint.replace(/^\/+/, '')   (line 44)
RECURSIVE StripLeadingSlashes(_)
StripLeadingSlashes(s) ==
    IF s # <<>> /\ Head(s) = "/" THEN StripLeadingSlashes(Tail(s)) ELSE s

\* the guard of normalizeUrl (line 40): both strings are empty after trim()
UrlIsNull(baseURL, endpoint) == Trim(baseURL) = <<>> /\ Trim(endpoint) = <<>>

\* (faulty variant: the strings are joined as they come, slashes kept)
normalizeUrl_SlashesKept(baseURL, endpoint) ==
    IF baseURL # <<>> THEN baseURL \o <<"/">> \o endpoint ELSE endpoint

\* the value normalizeUrl returns when it does not throw (lines 43-45)
normalizeUrl(baseURL, endpoint) ==
    LET cleanBaseURL == StripTrailingSlashes(baseURL)
        cleanEndpoint == StripLeadingSlashes(endpoint)
    IN  IF cleanBaseURL # <<>> THEN cleanBaseURL \o <<"/">> \o cleanEndpoint ELSE cleanEndpoint

(***************************************************************************)
(* Errors (the classes at the end of Aurora.ts).                           *)
(***************************************************************************)
AuroraInstanceError(message) ==
    [kind |-> "throw", name |-> "AuroraInstanceError", message |-> message]

\* what an access through undefined raises: `axiosError.request.status` when the
\* error carries no request (line 214), Object.assign and delete on the absent
\* defaults.params (lines 133, 146)
TypeError == [kind |-> "throw", name |-> "TypeError", message |-> "value is undefined"]

\* (faulty variant: responseStatus is read from the request)
AuroraPromiseError_StatusOfRequest(axiosError) ==
    IF "request" \notin DOMAIN axiosError
    THEN TypeError
    ELSE [kind |-> "AuroraPromiseError",
          name |-> "AuroraPromiseError",
          msg |-> axiosError.message,
          errorCode |-> axiosError.code,
          requestStatus |-> axiosError.request.status,
          responseStatus |-> axiosError.request.status]

\* new AuroraPromiseError(axiosError): the classified error, or the TypeError
\* the constructor raises at line 214
AuroraPromiseError(axiosError) ==
    IF "request" \notin DOMAIN axiosError
    THEN TypeError
    ELSE [kind |-> "AuroraPromiseError",
          name |-> "AuroraPromiseError",
          msg |-> axiosError.message,
          errorCode |-> axiosError.code,
          requestStatus |-> axiosError.request.status,
          responseStatus |-> IF "response" \in DOMAIN axiosError
                             THEN axiosError.response.status ELSE 500]

(***************************************************************************)
(* Inputs: what the caller passes, and what the transport answers.         *)
(***************************************************************************)
\* new Aurora({ url }): "" (the default) and "h/"
BaseUrlChoices == { <<>>, <<"h", "/">> }

\* axios.create()   (line 23): the defaults of a fresh instance are a stock
\* Accept header, no params object and timeout 0
AxiosCreate == [headers |-> [common |-> [Accept |-> "*/*"]], timeout |-> 0]

\* the argument of setMaxConcurrentRequestsLimit / maxConcurrentRequests:
\* omitted, or a number
LimitChoices == { EmptyObject } \cup { [value |-> n] : n \in (-1)..MaxLimit }

\* call(method, options), here through the aliases get(options), post(options),
\* put(options) and delete(options)   (lines 177-198)
CallInputs ==
    { [method |-> "get", options |-> [endpoint |-> <<"a">>]],
      [method |-> "post",
       options |-> [endpoint |-> <<"/", "a">>, headers |-> [A |-> "2"],
                    abortController |-> "own", loadingCallback |-> TRUE]],
      [method |-> "put", options |-> [loadingCallback |-> TRUE]],
      [method |-> "delete",
       options |-> [endpoint |-> <<"a">>, params |-> [q |-> "1"], abortController |-> "null"]] }

\* recall(customOptions)
CustomOptionChoices ==
    { EmptyObject, [abortController |-> "own", loadingCallback |-> TRUE] }

\* addHeaders / addParams arguments, removeHeaders / removeParams arguments
\* (EmptyObject stands for the omitted argument of the remove operations)
HeaderChoices == { [A |-> "1"] }
ParamChoices == { [q |-> "7"] }
HeaderNameChoices == { EmptyObject, [names |-> {"A"}] }
ParamNameChoices == { EmptyObject, [names |-> {"q"}] }
TimeoutChoices == { 1000 }

\* What the awaited transport promise settles with.
Response == [kind |-> "response", status |-> 200]

\* AxiosError: `request` and `response` are optional members of the type
AxiosErrors ==
    { [kind |-> "AxiosError", message |-> "Request failed with status code 404",
       code |-> "ERR_BAD_REQUEST", request |-> [status |-> 404], response |-> [status |-> 404]],
      [kind |-> "AxiosError", message |-> "Network Error",
       code |-> "ERR_NETWORK", request |-> [status |-> 0]],
      [kind |-> "AxiosError", message |-> "Network Error", code |-> "ERR_NETWORK"] }

\* the AxiosError of a cancelled request (CanceledError)
CanceledErrors ==
    { [kind |-> "AxiosError", message |-> "canceled",
       code |-> "ERR_CANCELED", request |-> [status |-> 0]],
      [kind |-> "AxiosError", message |-> "canceled", code |-> "ERR_CANCELED"] }

\* a failure that is not an AxiosError
OtherError == [kind |-> "throw", name |-> "Error", message |-> "not an AxiosError"]

(***************************************************************************)
(* Helpers of call().                                                      *)
(***************************************************************************)
Has(obj, key) == key \in DOMAIN obj
Get(obj, key, default) == IF key \in DOMAIN obj THEN obj[key] ELSE default   \* obj.key ?? default

Returned == [kind |-> "return"]       \* the operation returned undefined
Pending == [kind |-> "pending"]       \* the promise of call() is pending

LoadingTrue == "loadingCallback(true)"
LoadingFalse == "loadingCallback(false)"
TransportInvoked == "axiosInstance(config)"
TransportSettled == "settled"

\* (faulty variant: the per-call controller is ignored)
ResolveAbortController_AlwaysDefault(callOptions) == "default"

\* (faulty variant: a default controller that has fired is replaced by a fresh
\* one for the next call)
ResolveAbortController_Rotating(callOptions) ==
    IF Has(callOptions, "abortController") THEN callOptions.abortController
    ELSE IF defaultAbortController.aborted THEN "own" ELSE "default"

\* abortController = this.defaultAbortController   (line 58): the default
\* applies when the key is undefined; null stays null
ResolveAbortController(callOptions) == Get(callOptions, "abortController", "default")

\* loadingCallback   (line 59)
ResolveLoadingCallback(callOptions) == Has(callOptions, "loadingCallback")

\* (faulty variant: call() folds the default headers of the moment into the options
\* that the recall closure captures)
RestOptions_WithDefaults(callOptions) ==
    Spread(Omit(callOptions, {"abortController", "loadingCallback"}),
           [headers |-> Spread(axiosDefaults.headers.common,
                               Get(callOptions, "headers", EmptyObject))])

\* ...options   (line 60)
RestOptions(callOptions) == Omit(callOptions, {"abortController", "loadingCallback"})

\* abortController?.signal   (line 82); a signal is named after its controller
SignalOf(abortController) == IF abortController = "null" THEN "undefined" ELSE abortController

\* { ...options, url, signal: abortController?.signal }   (lines 79-83);
\* `method` is in scope there and is not put into the config
RequestConfig(method, options, url, abortController) ==
    Spread(options, [url |-> url, signal |-> SignalOf(abortController)])

\* The method of the request the transport performs for a config: axios
\* takes config.method and falls back to "get".
TransportMethod(config) == Get(config, "method", "get")

\* The request the transport performs: axios merges the instance defaults in
\* effect when it is invoked under the config (per-call entries win, one
\* level deep).
EffectiveRequest(config) ==
    [method |-> TransportMethod(config),
     url |-> config.url,
     signal |-> config.signal,
     headers |-> Spread(axiosDefaults.headers.common, Get(config, "headers", EmptyObject)),
     params |-> Spread(Get(axiosDefaults, "params", EmptyObject), Get(config, "params", EmptyObject)),
     timeout |-> IF Has(config, "timeout") THEN {config.timeout}
                 ELSE IF Has(axiosDefaults, "timeout") THEN {axiosDefaults.timeout} ELSE {}]

\* the recall closure of a handle (lines 100-101): what it passes to call()
RecallMethod(handle) == handle.method
RecallOptions(handle, customOptions) == Spread(handle.options, customOptions)

\* (faulty variant: hasError is left at its initial false)
ResultHandle_FlagNotSet(response, error, hasError) ==
    [kind |-> "handle", response |-> response, error |-> error, hasError |-> FALSE]

\* the handle call() returns (lines 96-102)
ResultHandle(response, error, hasError) ==
    [kind |-> "handle", response |-> response, error |-> error, hasError |-> hasError]

\* its recall closure: the method and the options it has captured
RecallClosure(method, options) == [method |-> method, options |-> options]

\* has the signal fired?  Only abortAll() fires a signal in this model.
SignalFired(signal) == signal = "default" /\ defaultAbortController.aborted

\* (faulty variant: loadingCallback(true) is called after the transport was invoked)
DispatchLog_TransportFirst(loadingCallback) ==
    <<TransportInvoked>> \o (IF loadingCallback THEN <<LoadingTrue>> ELSE <<>>)

\* the log of a call that has reached the await
DispatchLog(loadingCallback) ==
    (IF loadingCallback THEN <<LoadingTrue>> ELSE <<>>) \o <<TransportInvoked>>

\* the finally block's callback (line 93)
FinallyLog(loadingCallback) == IF loadingCallback THEN <<LoadingFalse>> ELSE <<>>

\* (faulty variant: the increment is missing)
Admit_Forgotten(r) == r

\* (faulty variants: the slot is given back twice, or never)
Release_Twice(r) == [r EXCEPT !.current = @ - 2]
Release_Never(r) == r

\* this.requests.current++ / this.requests.current--   (lines 66, 92)
Admit(r) == [r EXCEPT !.current = @ + 1]
Release(r) == [r EXCEPT !.current = @ - 1]

(***************************************************************************)
(* The state after `new Aurora({url, maxConcurrentRequests, axiosInstance})`*)
(***************************************************************************)
\* (faulty variant: zero is taken as a limit)
LimitValue_ZeroIsALimit(limit) ==
    IF Has(limit, "value") /\ limit.value >= 0
    THEN Finite(limit.value) ELSE POSITIVE_INFINITY

\* limit && limit > 0 ? limit : Number.POSITIVE_INFINITY   (line 36)
LimitValue(limit) ==
    IF Has(limit, "value") /\ limit.value # 0 /\ limit.value > 0
    THEN Finite(limit.value) ELSE POSITIVE_INFINITY

Init ==
    /\ \E limit \in LimitChoices : requests = [max |-> LimitValue(limit), current |-> 0]
    /\ defaultAbortController = [aborted |-> FALSE]
    /\ \E url \in BaseUrlChoices : axiosDefaults = Spread(AxiosCreate, [baseURL |-> url])
    /\ inflight = EmptyBag
    /\ handles = {}
    /\ last = [result |-> Returned, log |-> <<>>]

(***************************************************************************)
(* call(method, callOptions), up to its await (lines 55-83).               *)
(***************************************************************************)
call(method, callOptions) ==
    LET abortController == ResolveAbortController(callOptions)
        loadingCallback == ResolveLoadingCallback(callOptions)
        options == RestOptions(callOptions)
        baseURL == Get(axiosDefaults, "baseURL", <<>>)
        endpoint == Get(options, "endpoint", <<>>)
    IN  IF GreaterOrEqual(requests.current, requests.max)
        THEN \* line 64: thrown before anything else happens
             /\ last' = [result |-> AuroraInstanceError("Request limit exceeded"), log |-> <<>>]
             /\ UNCHANGED <<requests, defaultAbortController, axiosDefaults, inflight, handles>>
        ELSE IF UrlIsNull(baseURL, endpoint)
        THEN \* line 41 throws inside the try: the catch rethrows, the finally runs
             /\ requests' = Release(Admit(requests))
             /\ last' = [result |-> AuroraInstanceError("URL cannot be null"),
                         log |-> FinallyLog(loadingCallback)]
             /\ UNCHANGED <<defaultAbortController, axiosDefaults, inflight, handles>>
        ELSE LET config == RequestConfig(method, options, normalizeUrl(baseURL, endpoint),
                                         abortController)
                 suspended == [method |-> method,
                               given |-> callOptions,      \* history: the argument of call()
                               defaultHeaders |-> axiosDefaults.headers.common,
                                                           \* history: the default headers then
                               options |-> options,
                               loadingCallback |-> loadingCallback,
                               config |-> config,
                               request |-> EffectiveRequest(config),
                               log |-> DispatchLog(loadingCallback)]
             IN  /\ BagCardinality(inflight) < MaxInFlight
                 /\ requests' = Admit(requests)
                 /\ inflight' = inflight (+) SetToBag({suspended})
                 /\ last' = [result |-> Pending, log |-> suspended.log]
                 /\ UNCHANGED <<defaultAbortController, axiosDefaults, handles>>

\* aurora.call(method, options) and the aliases get/post/put/delete
Call == \E in \in CallInputs : call(in.method, in.options)

\* handle.recall(customOptions)   (lines 100-101)
Recall ==
    \E handle \in handles, customOptions \in CustomOptionChoices :
        call(RecallMethod(handle), RecallOptions(handle, customOptions))

(***************************************************************************)
(* The rest of call(): the awaited promise settles (lines 79-102).         *)
(***************************************************************************)
\* What the transport may settle a suspended call with: a request whose
\* signal has fired is cancelled, any other request succeeds or fails.
SettleOutcomes(suspended) ==
    IF SignalFired(suspended.config.signal)
    THEN CanceledErrors
    ELSE {Response} \cup AxiosErrors \cup {OtherError}

\* (faulty variant: the catch block classifies whatever was thrown)
CallResult_CatchAll(suspended, outcome) ==
    IF outcome.kind = "response"
    THEN ResultHandle(outcome, Null, FALSE)
    ELSE ResultHandle(Null, [kind |-> "AuroraPromiseError", name |-> "AuroraPromiseError",
                             msg |-> outcome.message, responseStatus |-> 500], TRUE)

\* try / catch (lines 79-90) and the return (lines 96-102): the result of
\* call() for a transport outcome
CallResult(suspended, outcome) ==
    IF outcome.kind = "response"
    THEN ResultHandle(outcome, Null, FALSE)
    ELSE IF outcome.kind = "AxiosError"               \* err instanceof AxiosError
    THEN LET error == AuroraPromiseError(outcome)
         IN  IF error.kind = "throw"
             THEN error                               \* raised inside the catch block
             ELSE ResultHandle(Null, error, TRUE)
    ELSE outcome                                      \* throw err

\* The caller holds one handle at a time: it keeps the one it has, or
\* replaces it by the handle this call returned.  Beside the closure a held
\* handle remembers, as history, the argument its call was given and the
\* default headers in effect when that call was dispatched.
KeptHandles(result, suspended) ==
    IF result.kind = "handle"
    THEN { handles,
           { Spread(RecallClosure(suspended.method, suspended.options),
                    [given |-> suspended.given,
                     defaultHeaders |-> suspended.defaultHeaders]) } }
    ELSE { handles }

settle(suspended, outcome) ==
    LET result == CallResult(suspended, outcome)
    IN  /\ BagIn(suspended, inflight)
        /\ outcome \in SettleOutcomes(suspended)
        /\ requests' = Release(requests)                                  \* line 92
        /\ inflight' = inflight (-) SetToBag({suspended})
        /\ last' = [result |-> result,
                    log |-> suspended.log \o <<TransportSettled>>
                                \o FinallyLog(suspended.loadingCallback)] \* line 93
        /\ handles' \in KeptHandles(result, suspended)
        /\ UNCHANGED <<defaultAbortController, axiosDefaults>>

Settle ==
    \E suspended \in BagToSet(inflight) :
        \E outcome \in SettleOutcomes(suspended) : settle(suspended, outcome)

(***************************************************************************)
(* The other operations of the class.                                      *)
(***************************************************************************)
\* setMaxConcurrentRequestsLimit(limit)   (lines 35-37)
setMaxConcurrentRequestsLimit(limit) ==
    /\ requests' = [requests EXCEPT !.max = LimitValue(limit)]
    /\ last' = [result |-> Returned, log |-> <<>>]
    /\ UNCHANGED <<defaultAbortController, axiosDefaults, inflight, handles>>

SetMaxConcurrentRequestsLimit == \E limit \in LimitChoices : setMaxConcurrentRequestsLimit(limit)

\* (faulty variant: aborting also drops the default timeout)
abortAll_DroppingTimeout ==
    /\ defaultAbortController' = [defaultAbortController EXCEPT !.aborted = TRUE]
    /\ axiosDefaults' = Omit(axiosDefaults, {"timeout"})
    /\ last' = [result |-> Returned, log |-> <<>>]
    /\ UNCHANGED <<requests, inflight, handles>>

\* abortAll()   (lines 168-170)
abortAll ==
    /\ defaultAbortController' = [defaultAbortController EXCEPT !.aborted = TRUE]
    /\ last' = [result |-> Returned, log |-> <<>>]
    /\ UNCHANGED <<requests, axiosDefaults, inflight, handles>>

\* (faulty variant: the given headers replace the defaults)
addHeaders_Replacing(headers) ==
    /\ axiosDefaults' = [axiosDefaults EXCEPT !.headers.common = headers]
    /\ last' = [result |-> Returned, log |-> <<>>]
    /\ UNCHANGED <<requests, defaultAbortController, inflight, handles>>

\* addHeaders(headers)   (lines 109-111)
addHeaders(headers) ==
    /\ axiosDefaults' = [axiosDefaults EXCEPT !.headers.common = Spread(@, headers)]
    /\ last' = [result |-> Returned, log |-> <<>>]
    /\ UNCHANGED <<requests, defaultAbortController, inflight, handles>>

\* removeHeaders(headerNames?)   (lines 117-126)
removeHeaders(headerNames) ==
    /\ axiosDefaults' = [axiosDefaults EXCEPT !.headers.common =
            IF Has(headerNames, "names") THEN Omit(@, headerNames.names) ELSE EmptyObject]
    /\ last' = [result |-> Returned, log |-> <<>>]
    /\ UNCHANGED <<requests, defaultAbortController, inflight, handles>>

\* addParams(params)   (lines 132-134): Object.assign throws on an undefined target
addParams(params) ==
    /\ IF Has(axiosDefaults, "params")
       THEN /\ axiosDefaults' = [axiosDefaults EXCEPT !.params = Spread(@, params)]
            /\ last' = [result |-> Returned, log |-> <<>>]
       ELSE /\ axiosDefaults' = axiosDefaults
            /\ last' = [result |-> TypeError, log |-> <<>>]
    /\ UNCHANGED <<requests, defaultAbortController, inflight, handles>>

\* removeParams(paramNames?)   (lines 140-148): `delete undefined[param]` throws
removeParams(paramNames) ==
    /\ IF ~Has(paramNames, "names")
       THEN /\ axiosDefaults' = Spread(axiosDefaults, [params |-> EmptyObject])
            /\ last' = [result |-> Returned, log |-> <<>>]
       ELSE IF Has(axiosDefaults, "params")
       THEN /\ axiosDefaults' = [axiosDefaults EXCEPT !.params = Omit(@, paramNames.names)]
            /\ last' = [result |-> Returned, log |-> <<>>]
       ELSE /\ axiosDefaults' = axiosDefaults
            /\ last' = [result |-> IF paramNames.names = {} THEN Returned ELSE TypeError,
                        log |-> <<>>]
    /\ UNCHANGED <<requests, defaultAbortController, inflight, handles>>

\* setTimeout(timeout)   (lines 154-156)
setTimeout(timeout) ==
    /\ axiosDefaults' = Spread(axiosDefaults, [timeout |-> timeout])
    /\ last' = [result |-> Returned, log |-> <<>>]
    /\ UNCHANGED <<requests, defaultAbortController, inflight, handles>>

\* removeTimeout()   (lines 161-163)
removeTimeout ==
    /\ axiosDefaults' = Omit(axiosDefaults, {"timeout"})
    /\ last' = [result |-> Returned, log |-> <<>>]
    /\ UNCHANGED <<requests, defaultAbortController, inflight, handles>>

AddHeaders == \E headers \in HeaderChoices : addHeaders(headers)
RemoveHeaders == \E headerNames \in HeaderNameChoices : removeHeaders(headerNames)
AddParams == \E params \in ParamChoices : addParams(params)
RemoveParams == \E paramNames \in ParamNameChoices : removeParams(paramNames)
SetTimeout == \E timeout \in TimeoutChoices : setTimeout(timeout)

(***************************************************************************)
(* Specifications.                                                         *)
(***************************************************************************)
GateOps == Call \/ Recall \/ Settle \/ abortAll \/ SetMaxConcurrentRequestsLimit
StoreOps == AddHeaders \/ RemoveHeaders \/ AddParams \/ RemoveParams \/ SetTimeout \/ removeTimeout

Next == GateOps \/ StoreOps

\* the whole class
Spec == Init /\ [][Next]_vars

\* the gate, the calls and cancellation of an orchestrator constructed with
\* new Aurora({ maxConcurrentRequests }): url is '', the defaults stay as constructed
InitGate == Init /\ axiosDefaults.baseURL = <<>>
SpecGate == InitGate /\ [][GateOps]_vars

\* the default store and the calls of an orchestrator constructed with
\* new Aurora({ url: "h/", maxConcurrentRequests: 1 })
InitDefaults == Init /\ requests.max = Finite(1) /\ axiosDefaults.baseURL = <<"h", "/">>
NextDefaults == Call \/ Recall \/ Settle \/ StoreOps
SpecDefaults == InitDefaults /\ [][NextDefaults]_vars

(***************************************************************************)
(* The gate with a transport that answers: every awaited transport promise *)
(* (line 79) settles at some time, so a call that stays suspended is       *)
(* resumed.  A settle step is enabled as long as a call is suspended and   *)
(* each one takes a call out of flight, so weak fairness on Settle is what *)
(* a transport that settles every request provides.  The caller is free to *)
(* issue calls or not.                                                     *)
(***************************************************************************)
SpecLive == InitGate /\ [][GateOps]_vars /\ WF_vars(Settle)

(***************************************************************************)
(* Every operation of the class, used by a caller that awaits each call    *)
(* before it issues the next one: the gate operations and the operations   *)
(* on the default store interleave, and the store is changed while a call  *)
(* is suspended.                                                           *)
(***************************************************************************)
SequentialCallInputs ==
    { [method |-> "get", options |-> [endpoint |-> <<"a">>, loadingCallback |-> TRUE]] }

InitSequential ==
    Init /\ requests.max = POSITIVE_INFINITY /\ axiosDefaults.baseURL = <<"h", "/">>

SequentialCall ==
    /\ inflight = EmptyBag
    /\ \E in \in SequentialCallInputs : call(in.method, in.options)

\* handle.recall() with no argument
SequentialRecall ==
    /\ inflight = EmptyBag
    /\ \E handle \in handles : call(RecallMethod(handle), RecallOptions(handle, EmptyObject))

NextSequential ==
    \/ SequentialCall \/ SequentialRecall \/ Settle
    \/ abortAll \/ SetMaxConcurrentRequestsLimit
    \/ StoreOps

SpecSequential == InitSequential /\ [][NextSequential]_vars

(***************************************************************************)
(* The default store on its own: a fresh orchestrator and the operations   *)
(* on default headers, params and timeout, with header and parameter maps  *)
(* that overlap and names that are and are not present.                    *)
(***************************************************************************)
StoreHeaderChoices == { [A |-> "1"], [A |-> "2", B |-> "3"] }
StoreHeaderNameChoices == { EmptyObject, [names |-> {"A"}], [names |-> {"Z"}] }
StoreParamChoices == { [q |-> "7"], [q |-> "8", r |-> "9"] }
StoreParamNameChoices == { EmptyObject, [names |-> {"q"}], [names |-> {"z"}] }

InitStore == Init /\ requests.max = POSITIVE_INFINITY /\ axiosDefaults.baseURL = <<>>

StoreAddHeaders == \E headers \in StoreHeaderChoices : addHeaders(headers)
StoreRemoveHeaders == \E headerNames \in StoreHeaderNameChoices : removeHeaders(headerNames)
StoreAddParams == \E params \in StoreParamChoices : addParams(params)
StoreRemoveParams == \E paramNames \in StoreParamNameChoices : removeParams(paramNames)

NextStore ==
    \/ StoreAddHeaders \/ StoreRemoveHeaders
    \/ StoreAddParams \/ StoreRemoveParams
    \/ SetTimeout \/ removeTimeout

SpecStore == InitStore /\ [][NextStore]_vars

(***************************************************************************)
(* normalizeUrl on its own.  The orchestrator is constructed with a base   *)
(* url drawn from the strings of at most MaxUrlLen characters, an endpoint *)
(* is drawn from the same strings, and one step applies normalizeUrl       *)
(* (lines 39-46) to the pair as call() does at line 73: the step leaves in *)
(* `last` either the error thrown at line 41 or the string returned.       *)
(***************************************************************************)
MaxUrlLen == 2
UrlAlphabet == { "/", " ", "a" }
UrlStrings == UNION { [1..n -> UrlAlphabet] : n \in 0..MaxUrlLen }

UrlReturned(url) == [kind |-> "return", value |-> url]

NormalizeUrlResult(baseURL, endpoint) ==
    IF UrlIsNull(baseURL, endpoint)
    THEN AuroraInstanceError("URL cannot be null")
    ELSE UrlReturned(normalizeUrl(baseURL, endpoint))

InitUrl ==
    /\ requests = [max |-> POSITIVE_INFINITY, current |-> 0]
    /\ defaultAbortController = [aborted |-> FALSE]
    /\ \E url \in UrlStrings : axiosDefaults = Spread(AxiosCreate, [baseURL |-> url])
    /\ inflight = EmptyBag
    /\ handles = {}
    /\ \E endpoint \in UrlStrings :
          last = [result |-> Pending, log |-> <<>>, endpoint |-> endpoint]

NormalizeUrl ==
    /\ last.result = Pending
    /\ last' = [last EXCEPT !.result = NormalizeUrlResult(axiosDefaults.baseURL, last.endpoint)]
    /\ UNCHANGED <<requests, defaultAbortController, axiosDefaults, inflight, handles>>

SpecUrl == InitUrl /\ [][NormalizeUrl]_vars

(***************************************************************************)
(* Shorthands of the properties.                                           *)
(***************************************************************************)
Suspended == BagToSet(inflight)

\* every outcome a transport can settle a request with
AllOutcomes == {Response} \cup AxiosErrors \cup CanceledErrors \cup {OtherError}

\* every argument pair call() receives: directly, or from a recall closure
CallArguments ==
    { <<in.method, in.options>> : in \in CallInputs } \cup
    { <<RecallMethod(handle), RecallOptions(handle, customOptions)>> :
          handle \in handles, customOptions \in CustomOptionChoices }

LimitExceeded == AuroraInstanceError("Request limit exceeded")

\* the step suspends exactly one more call, `new`
Dispatches(new) == inflight' = inflight (+) SetToBag({new})

\* a classified failure: a Result Handle with hasError, an AuroraPromiseError and no response
ClassifiedFailure(result) ==
    /\ result.kind = "handle"
    /\ result.hasError = TRUE
    /\ result.error.kind = "AuroraPromiseError"
    /\ result.response = Null

(***************************************************************************)
(* C1: in every reachable state the gate counter satisfies current <= max, *)
(* also after setMaxConcurrentRequestsLimit lowers the limit below the     *)
(* number of calls in flight.                                              *)
(***************************************************************************)
C1_CurrentNeverExceedsMax ==
    requests.max.finite => requests.current <= requests.max.value

(***************************************************************************)
(* C2: a call() invoked while current >= max fails with                    *)
(* AuroraInstanceError('Request limit exceeded') and has no side effect:   *)
(* the counter, the suspended calls, the handles, the controller and the   *)
(* defaults are unchanged, and neither the transport nor the loading       *)
(* callback is invoked (its log is empty).                                 *)
(***************************************************************************)
C2_RejectedCallHasNoSideEffects ==
    [][\A args \in CallArguments :
          (/\ requests.max.finite
           /\ requests.current >= requests.max.value
           /\ call(args[1], args[2]))
          => /\ last'.result = LimitExceeded
             /\ last'.log = <<>>
             /\ UNCHANGED <<requests, inflight, handles, defaultAbortController, axiosDefaults>>
      ]_vars

\* a call was just rejected while calls were in flight at a finite limit
C2_Witness ==
    /\ last.result = LimitExceeded
    /\ requests.max.finite
    /\ requests.current = requests.max.value
    /\ BagCardinality(inflight) = requests.current

(***************************************************************************)
(* C3: every AxiosError the transport settles a call with, with or without *)
(* a request object or a response, cancellation included, makes call()     *)
(* resolve with a classified failure; it is never thrown.                  *)
(***************************************************************************)
C3_TransportFailureIsNeverThrown ==
    [][\A suspended \in Suspended : \A outcome \in AxiosErrors \cup CanceledErrors :
          settle(suspended, outcome) => ClassifiedFailure(last'.result)
      ]_vars

(***************************************************************************)
(* C4: when abortAll() has fired the default signal, every call in flight  *)
(* on that signal resolves with a classified failure and gives its gate    *)
(* slot back exactly once.                                                 *)
(***************************************************************************)
C4_AbortedCallsResolveClassified ==
    [][\A suspended \in Suspended : \A outcome \in AllOutcomes :
          (/\ defaultAbortController.aborted
           /\ suspended.config.signal = "default"
           /\ settle(suspended, outcome))
          => /\ ClassifiedFailure(last'.result)
             /\ requests'.current = requests.current - 1
             /\ inflight' = inflight (-) SetToBag({suspended})
      ]_vars

(***************************************************************************)
(* C5: a call that supplies a loading callback and reaches the transport   *)
(* has called it with true once, before the transport, and calls it with   *)
(* false once, after the transport settled, whatever the outcome.          *)
(***************************************************************************)
C5_LoadingCallbackBracketsTransport ==
    [][\A suspended \in Suspended : \A outcome \in AllOutcomes :
          (suspended.loadingCallback /\ settle(suspended, outcome))
          => last'.log = <<LoadingTrue, TransportInvoked, TransportSettled, LoadingFalse>>
      ]_vars

\* a call with a loading callback ended by rethrowing a failure that is no AxiosError
C5_Witness ==
    /\ last.result = OtherError
    /\ last.log = <<LoadingTrue, TransportInvoked, TransportSettled, LoadingFalse>>

(***************************************************************************)
(* C6: the request the transport performs for call(method, options), and   *)
(* so for each alias, has that HTTP method.                                *)
(***************************************************************************)
C6_RequestCarriesMethod ==
    \A suspended \in Suspended : suspended.request.method = suspended.method

(***************************************************************************)
(* C7: recall() re-issues the call with the original method and the exact  *)
(* option set the original call was given, controller override and loading *)
(* callback included; recall(customOptions) differs only in the keys that  *)
(* customOptions names.                                                    *)
(***************************************************************************)
C7_RecallReissuesOriginalOptions ==
    [][\A handle \in handles : \A customOptions \in CustomOptionChoices :
          call(RecallMethod(handle), RecallOptions(handle, customOptions))
          => LET original == Spread(handle.given, customOptions)
             IN  \A new \in BagToSet(inflight') :
                    Dispatches(new)
                    => /\ new.method = handle.method
                       /\ new.options = RestOptions(original)
                       /\ new.loadingCallback = ResolveLoadingCallback(original)
                       /\ new.config.signal = SignalOf(ResolveAbortController(original))
      ]_vars

(***************************************************************************)
(* C8: the request of a recall() is built from the default headers, params *)
(* and timeout in effect when recall() is invoked, merged under the        *)
(* per-call options of the original call (and the recall's overrides).     *)
(***************************************************************************)
C8_RecallUsesCurrentDefaults ==
    [][\A handle \in handles : \A customOptions \in CustomOptionChoices :
          call(RecallMethod(handle), RecallOptions(handle, customOptions))
          => LET original == Spread(handle.given, customOptions)
             IN  \A new \in BagToSet(inflight') :
                    Dispatches(new)
                    => /\ new.request.headers =
                              Spread(axiosDefaults.headers.common,
                                     Get(original, "headers", EmptyObject))
                       /\ new.request.params =
                              Spread(Get(axiosDefaults, "params", EmptyObject),
                                     Get(original, "params", EmptyObject))
                       /\ new.request.timeout =
                              IF Has(original, "timeout") THEN {original.timeout}
                              ELSE IF Has(axiosDefaults, "timeout")
                              THEN {axiosDefaults.timeout} ELSE {}
      ]_vars

\* the override that only a recall passes in this model
RecallOnlyOverride == [abortController |-> "own", loadingCallback |-> TRUE]

\* a recall is in flight that was dispatched under default headers other
\* than those its original call was dispatched under
C8_Witness ==
    \E new \in Suspended : \E handle \in handles :
        /\ handle.method = "get"
        /\ new.method = RecallMethod(handle)
        /\ new.given = RecallOptions(handle, RecallOnlyOverride)
        /\ new.defaultHeaders # handle.defaultHeaders

(***************************************************************************)
(* C9: every recall() is a call of its own: it is rejected with the limit  *)
(* error when current >= max at that moment and changes nothing; otherwise *)
(* it takes one gate slot, which its settlement gives back exactly once.   *)
(* A handle can be recalled again while its earlier recalls are in flight. *)
(***************************************************************************)
C9_RecallIsAnIndependentCall ==
    [][/\ \A handle \in handles : \A customOptions \in CustomOptionChoices :
             call(RecallMethod(handle), RecallOptions(handle, customOptions))
             => IF requests.max.finite /\ requests.current >= requests.max.value
                THEN /\ last'.result = LimitExceeded
                     /\ UNCHANGED <<requests, inflight>>
                ELSE IF last'.result = Pending
                THEN /\ requests'.current = requests.current + 1
                     /\ \E new \in BagToSet(inflight') : Dispatches(new)
                ELSE /\ last'.result = AuroraInstanceError("URL cannot be null")
                     /\ UNCHANGED <<requests, inflight>>
       /\ \A suspended \in Suspended : \A outcome \in AllOutcomes :
             settle(suspended, outcome)
             => /\ requests'.current = requests.current - 1
                /\ inflight' = inflight (-) SetToBag({suspended})
       /\ requests'.current = BagCardinality(inflight')
      ]_vars

\* two recalls of the handle the caller holds are in flight at once
C9_Witness ==
    \E new \in Suspended : \E handle \in handles :
        /\ new.method = RecallMethod(handle)
        /\ new.given = RecallOptions(handle, RecallOnlyOverride)
        /\ CopiesIn(new, inflight) = 2
        /\ requests.current = 2

(***************************************************************************)
(* C10: a call that supplies its own controller is dispatched with that    *)
(* controller's signal, which abortAll() does not fire (the call can still *)
(* succeed); a call that supplies none is dispatched with the signal of    *)
(* the default controller.                                                 *)
(***************************************************************************)
C10_SignalOfTheDispatchedCall ==
    \A suspended \in Suspended :
        /\ (Has(suspended.given, "abortController") /\ suspended.given.abortController = "own")
           => /\ suspended.config.signal = "own"
              /\ suspended.request.signal = "own"
              /\ Response \in SettleOutcomes(suspended)
        /\ ~Has(suspended.given, "abortController")
           => /\ suspended.config.signal = "default"
              /\ suspended.request.signal = "default"

\* abortAll() has fired while a call with its own controller is in flight
C10_Witness ==
    /\ defaultAbortController.aborted
    /\ \E suspended \in Suspended :
           /\ Has(suspended.given, "abortController")
           /\ suspended.given.abortController = "own"
           /\ suspended.config.signal = "own"

(***************************************************************************)
(* C11: a failure of the transport call that is not an AxiosError is       *)
(* thrown out of call(), not returned as a Result Handle; the gate slot is *)
(* given back exactly once and a supplied loading callback is called with  *)
(* false.                                                                  *)
(***************************************************************************)
C11_OtherFailureIsRethrown ==
    [][\A suspended \in Suspended :
          settle(suspended, OtherError)
          => /\ last'.result = OtherError
             /\ handles' = handles
             /\ requests'.current = requests.current - 1
             /\ inflight' = inflight (-) SetToBag({suspended})
             /\ suspended.loadingCallback
                => /\ last'.log[Len(last'.log)] = LoadingFalse
                   /\ Cardinality({i \in DOMAIN last'.log : last'.log[i] = LoadingFalse}) = 1
      ]_vars

\* such a failure was just rethrown, after the callback, with another call still in flight
C11_Witness ==
    /\ last.result = OtherError
    /\ last.log # <<>> /\ last.log[Len(last.log)] = LoadingFalse
    /\ requests.current = 1
    /\ BagCardinality(inflight) = 1

(***************************************************************************)
(* C12: in every Result Handle hasError is true exactly when error is      *)
(* present, and exactly one of response and error is present.              *)
(***************************************************************************)
C12_HandleIsResponseOrError ==
    last.result.kind = "handle"
    => /\ last.result.hasError <=> (last.result.error # Null)
       /\ (last.result.response # Null) <=> (last.result.error = Null)
       /\ last.result.response # Null => last.result.response.kind = "response"
       /\ last.result.error # Null => last.result.error.kind = "AuroraPromiseError"

\* a handle of a failed request: error present, response absent
C12_Witness ==
    /\ last.result.kind = "handle"
    /\ last.result.hasError
    /\ last.result.response = Null
    /\ last.result.error.errorCode = "ERR_BAD_REQUEST"

(***************************************************************************)
(* C13: for every base and endpoint that are not both empty after the      *)
(* slashes are stripped, normalizeUrl returns the endpoint without its     *)
(* leading slashes when the stripped base is empty, and otherwise the base *)
(* without its trailing slashes, '/', and the endpoint without its leading *)
(* slashes.                                                                *)
(***************************************************************************)
UrlApplied == last.result # Pending

BothEmptyAfterStripping ==
    /\ StripTrailingSlashes(axiosDefaults.baseURL) = <<>>
    /\ StripLeadingSlashes(last.endpoint) = <<>>

C13_NormalizeUrlJoinsBaseAndEndpoint ==
    (UrlApplied /\ ~BothEmptyAfterStripping)
    => last.result =
         UrlReturned(IF StripTrailingSlashes(axiosDefaults.baseURL) = <<>>
                     THEN StripLeadingSlashes(last.endpoint)
                     ELSE StripTrailingSlashes(axiosDefaults.baseURL) \o <<"/">>
                            \o StripLeadingSlashes(last.endpoint))

\* C13 as the code has it: the pairs that are both blank (empty after trim(),
\* line 40) are rejected, every other pair outside C14's case is joined as
\* C13 says.
C13_NormalizeUrlJoinsUnlessBlank ==
    (UrlApplied /\ ~BothEmptyAfterStripping)
    => last.result =
         IF Trim(axiosDefaults.baseURL) = <<>> /\ Trim(last.endpoint) = <<>>
         THEN AuroraInstanceError("URL cannot be null")
         ELSE UrlReturned(IF StripTrailingSlashes(axiosDefaults.baseURL) = <<>>
                          THEN StripLeadingSlashes(last.endpoint)
                          ELSE StripTrailingSlashes(axiosDefaults.baseURL) \o <<"/">>
                                 \o StripLeadingSlashes(last.endpoint))

\* base 'a/' and endpoint '/a' were joined to 'a/a'
C13_Witness ==
    /\ axiosDefaults.baseURL = <<"a", "/">>
    /\ last.endpoint = <<"/", "a">>
    /\ last.result = UrlReturned(<<"a", "/", "a">>)

(***************************************************************************)
(* C14: normalizeUrl fails with AuroraInstanceError('URL cannot be null')  *)
(* whenever the base without its trailing slashes and the endpoint without *)
(* its leading slashes are both empty, slash-only inputs included; it      *)
(* never returns the empty URL.                                            *)
(***************************************************************************)
C14_EmptyUrlIsRejected ==
    UrlApplied
    => /\ BothEmptyAfterStripping => last.result = AuroraInstanceError("URL cannot be null")
       /\ last.result # UrlReturned(<<>>)

(***************************************************************************)
(* C15: setMaxConcurrentRequestsLimit(limit) sets max to limit when limit  *)
(* is positive and to unbounded when it is zero, negative or absent, and   *)
(* changes nothing else of the gate; the constructor leaves max a positive *)
(* limit or, by default, unbounded.                                        *)
(***************************************************************************)
C15_LimitIsPositiveOrUnbounded ==
    /\ requests.max \in { POSITIVE_INFINITY } \cup { Finite(n) : n \in 1..MaxLimit }
    /\ [][\A limit \in LimitChoices :
            setMaxConcurrentRequestsLimit(limit)
            => /\ ("value" \in DOMAIN limit /\ limit.value > 0)
                  => requests'.max = [finite |-> TRUE, value |-> limit.value]
               /\ ("value" \notin DOMAIN limit \/ limit.value <= 0)
                  => ~requests'.max.finite
               /\ requests'.current = requests.current
        ]_vars

\* the limit was lowered to 1 while two calls were in flight
C15_Witness ==
    /\ last.result = Returned
    /\ requests.max = Finite(1)
    /\ requests.current = 2
    /\ ~defaultAbortController.aborted

(***************************************************************************)
(* C16: addHeaders(map) sets every key of map in the default headers to    *)
(* map's value and leaves the other keys as they were; removeHeaders(names)*)
(* deletes exactly the named keys, absent names being no-ops;              *)
(* removeHeaders() leaves no default header.  From no default headers,     *)
(* addHeaders({A:'1'}), addHeaders({A:'2', B:'3'}), removeHeaders(['A'])   *)
(* leaves {B:'3'}.                                                         *)
(***************************************************************************)
Common == axiosDefaults.headers.common

C16_DefaultHeadersUnionAndDelete ==
    [][/\ \A headers \in StoreHeaderChoices :
            addHeaders(headers)
            => /\ last'.result = Returned
               /\ DOMAIN Common' = DOMAIN Common \cup DOMAIN headers
               /\ \A k \in DOMAIN headers : Common'[k] = headers[k]
               /\ \A k \in DOMAIN Common \ DOMAIN headers : Common'[k] = Common[k]
       /\ \A headerNames \in StoreHeaderNameChoices :
            removeHeaders(headerNames)
            => /\ last'.result = Returned
               /\ "names" \in DOMAIN headerNames
                  => /\ DOMAIN Common' = DOMAIN Common \ headerNames.names
                     /\ \A k \in DOMAIN Common' : Common'[k] = Common[k]
               /\ "names" \notin DOMAIN headerNames => DOMAIN Common' = {}
       /\ (DOMAIN Common = {} /\ addHeaders([A |-> "1"])) => Common' = [A |-> "1"]
       /\ (Common = [A |-> "1"] /\ addHeaders([A |-> "2", B |-> "3"]))
          => Common' = [A |-> "2", B |-> "3"]
       /\ (Common = [A |-> "2", B |-> "3"] /\ removeHeaders([names |-> {"A"}]))
          => Common' = [B |-> "3"]
      ]_vars

\* the default headers the three operations of the example end with
C16_Witness ==
    /\ Common = [B |-> "3"]
    /\ last.result = Returned

(***************************************************************************)
(* C17: from a fresh orchestrator on, addParams(map) completes and sets    *)
(* every key of map in the default params (as the first operation it       *)
(* leaves the params equal to map), removeParams(names) completes and      *)
(* deletes exactly the named keys, absent names being no-ops, and          *)
(* removeParams() leaves no default param.                                 *)
(***************************************************************************)
Params == IF "params" \in DOMAIN axiosDefaults THEN axiosDefaults.params ELSE EmptyObject

C17_DefaultParamsUnionAndDelete ==
    [][/\ \A params \in StoreParamChoices :
            addParams(params)
            => /\ last'.result = Returned
               /\ DOMAIN Params' = DOMAIN Params \cup DOMAIN params
               /\ \A k \in DOMAIN params : Params'[k] = params[k]
               /\ \A k \in DOMAIN Params \ DOMAIN params : Params'[k] = Params[k]
       /\ \A paramNames \in StoreParamNameChoices :
            removeParams(paramNames)
            => /\ last'.result = Returned
               /\ "names" \in DOMAIN paramNames
                  => /\ DOMAIN Params' = DOMAIN Params \ paramNames.names
                     /\ \A k \in DOMAIN Params' : Params'[k] = Params[k]
               /\ "names" \notin DOMAIN paramNames => DOMAIN Params' = {}
      ]_vars

(***************************************************************************)
(* C18: the responseStatus of a classified error is the HTTP status of the *)
(* response when the transport error carries one, and 500 otherwise.       *)
(***************************************************************************)
C18_ResponseStatusOrFiveHundred ==
    [][\A suspended \in Suspended : \A outcome \in AllOutcomes :
          (settle(suspended, outcome) /\ last'.result.kind = "handle" /\ last'.result.hasError)
          => last'.result.error.responseStatus =
               IF "response" \in DOMAIN outcome THEN outcome.response.status ELSE 500
      ]_vars

\* a classified network error (no response): responseStatus 500
C18_Witness ==
    /\ last.result.kind = "handle"
    /\ last.result.hasError
    /\ last.result.error.errorCode = "ERR_NETWORK"
    /\ last.result.error.responseStatus = 500

(***************************************************************************)
(* C19: current is the number of admitted calls that have not exited yet,  *)
(* never negative: every admitted call gives its slot back exactly once    *)
(* on each way out (response, classified error, rethrown error, URL        *)
(* resolution failure).                                                    *)
(***************************************************************************)
C19_CurrentCountsAdmittedCalls ==
    /\ requests.current = BagCardinality(inflight)
    /\ requests.current >= 0

\* a call failed URL resolution while another call was in flight: it took
\* a slot and gave it back, the other call still holds its own
C19_Witness ==
    /\ last.result = AuroraInstanceError("URL cannot be null")
    /\ requests.current = 1
    /\ BagCardinality(inflight) = 1

(***************************************************************************)
(* C20: when the transport settles every dispatched request and from some  *)
(* time on no new call is issued, current comes back to 0 and stays 0:     *)
(* either calls (or recalls) are issued again and again, or from some time *)
(* on current is 0.                                                        *)
(***************************************************************************)
C20_CurrentReturnsToZero ==
    \/ []<><<Call \/ Recall>>_vars
    \/ <>[](requests.current = 0)

\* calls were issued and have all been resumed: none in flight, current 0
C20_Witness ==
    /\ requests.current = 0
    /\ inflight = EmptyBag
    /\ handles # {}
    /\ TransportSettled \in { last.log[i] : i \in DOMAIN last.log }

(***************************************************************************)
(* C21: the default store (default headers, params, timeout) is changed    *)
(* only by addHeaders, removeHeaders, addParams, removeParams, setTimeout  *)
(* and removeTimeout: a call, a recall, a settlement, abortAll and         *)
(* setMaxConcurrentRequestsLimit leave it unchanged, and the store         *)
(* operations leave the gate's counter and max unchanged.                  *)
(***************************************************************************)
C21_DefaultStoreFrame ==
    [][/\ (\/ \E in \in SequentialCallInputs : call(in.method, in.options)
           \/ Recall \/ Settle \/ abortAll \/ SetMaxConcurrentRequestsLimit)
          => axiosDefaults' = axiosDefaults
       /\ axiosDefaults' # axiosDefaults => StoreOps
       /\ StoreOps => requests' = requests
      ]_vars

\* the default headers were changed while a call dispatched before the change
\* is suspended, after abortAll
C21_Witness ==
    /\ requests.current = 1
    /\ defaultAbortController.aborted
    /\ "A" \in DOMAIN axiosDefaults.headers.common
    /\ \E suspended \in Suspended : "A" \notin DOMAIN suspended.defaultHeaders

(***************************************************************************)
(* C22: the default controller is never replaced.  Once abortAll() has     *)
(* been invoked the default signal stays fired; every later call or recall *)
(* that names no controller of its own and is dispatched carries the       *)
(* default, already fired, signal, so its transport can only be cancelled, *)
(* and it takes one gate slot and gives it back once when it settles.      *)
(***************************************************************************)
C22_DefaultControllerIsNeverReplaced ==
    [][/\ abortAll => defaultAbortController'.aborted
       /\ defaultAbortController.aborted => defaultAbortController'.aborted
       /\ \A args \in CallArguments :
             (/\ defaultAbortController.aborted
              /\ ~Has(args[2], "abortController")
              /\ call(args[1], args[2])
              /\ last'.result = Pending)
             => /\ requests'.current = requests.current + 1
                /\ \E new \in BagToSet(inflight') :
                      /\ Dispatches(new)
                      /\ new.config.signal = "default"
                      /\ new.request.signal = "default"
                      /\ SignalFired(new.config.signal)
                      /\ SettleOutcomes(new) = CanceledErrors
       /\ \A suspended \in Suspended : \A outcome \in AllOutcomes :
             (/\ defaultAbortController.aborted
              /\ suspended.config.signal = "default"
              /\ settle(suspended, outcome))
             => /\ outcome \in CanceledErrors
                /\ requests'.current = requests.current - 1
                /\ inflight' = inflight (-) SetToBag({suspended})
                /\ defaultAbortController'.aborted
      ]_vars

\* a call that names no controller has just been dispatched after abortAll()
C22_Witness ==
    /\ defaultAbortController.aborted
    /\ last.result = Pending
    /\ \E suspended \in Suspended :
          /\ ~Has(suspended.given, "abortController")
          /\ suspended.config.signal = "default"
          /\ suspended.log = last.log

(***************************************************************************)
(* C23: for every call with a loading callback, on every path (admission   *)
(* rejection and URL resolution failure included), the callback is not     *)
(* invoked with false unless it was invoked with true before for that      *)
(* call: at every point of a call's log the invocations with false are at  *)
(* most as many as those with true.                                        *)
(***************************************************************************)
CallLogs == { last.log } \cup { suspended.log : suspended \in Suspended }

C23_LoadingFalseOnlyAfterTrue ==
    \A log \in CallLogs : \A n \in 0..Len(log) :
        Cardinality({ i \in 1..n : log[i] = LoadingFalse })
            <= Cardinality({ i \in 1..n : log[i] = LoadingTrue })

====
